---- MODULE Spec2Model ----
(***************************************************************************)
(* Model of the JSON-RPC transport HttpSender (src/src/lib.rs) and of      *)
(* WasmRpcClient::send_and_confirm_transaction                             *)
(* (src/src/wasm_rpc_client.rs).                                           *)
(*                                                                         *)
(* Times are in milliseconds.  A send call is cut at its blocking points   *)
(* (the HTTP invocation, the backoff sleep, the acquisition of the stats   *)
(* lock) and at each statement of StatsUpdater::drop, so that callers on   *)
(* other threads interleave exactly where the code lets them.              *)
(***************************************************************************)
EXTENDS Integers, Sequences, FiniteSets, TLC

\* ------------------------------------------------------------------ bounds

\* Number of send calls started on the one HttpSender of a behaviour.
MaxCalls == 2

\* Milliseconds that pass inside HTTP invocations in a behaviour.
MaxLag == 1

\* Number of status polls of one send_and_confirm_transaction call
\* (GET_STATUS_RETRIES is usize::MAX in the code).
MaxPolls == 3

\* Number of 429 answers the host gives to one send call when several threads
\* share the HttpSender.
MaxConcRetries == 1

\* ------------------------------------------------------ program constants

\* lib.rs:46  let mut too_many_requests_retries = 5;
RetryBudget == 5
\* lib.rs:61  Duration::from_millis(500)
DefaultWaitMillis == 500
\* lib.rs:65  if retry_after < 120
RetryAfterLimit == 120
\* lib.rs:66  Duration::from_secs: one second in milliseconds
MillisPerSec == 1000
\* lib.rs:60  http::StatusCode::TOO_MANY_REQUESTS
TOO_MANY_REQUESTS == 429
\* rpc_custom_error codes matched at lib.rs:94 and lib.rs:102
JSON_RPC_SERVER_ERROR_SEND_TRANSACTION_PREFLIGHT_FAILURE == -32002
JSON_RPC_SERVER_ERROR_NODE_UNHEALTHY == -32005

\* ------------------------------------------------------------ JSON values

JNull == [t |-> "null"]
JNum(n) == [t |-> "num", n |-> n]
JStr(s) == [t |-> "str", s |-> s]
JObj(m) == [t |-> "obj", m |-> m]

\* serde_json's Value::is_object
IsObject(v) == v.t = "obj"

\* serde_json's immutable index json["key"]: Null unless json is an object
\* holding the key.
Index(v, key) ==
  IF IsObject(v) /\ key \in DOMAIN v.m THEN v.m[key] ELSE JNull

\* serde_json's mutable index json["key"], used by json["result"].take():
\* Null is turned into an empty object, an object yields the entry (Null when
\* absent), anything else panics.
IndexMutPanics(v) == ~IsObject(v) /\ v # JNull

\* The body bytes that are no JSON at all.
Garbage == [t |-> "garbage"]

\* serde_json::from_slice(&http_response.body)
ParseOk(body) == body # Garbage

\* serde_json::from_value::<RpcErrorObject>: an object with an integer code
\* and a string message.
DecodesAsRpcErrorObject(e) ==
  /\ IsObject(e)
  /\ {"code", "message"} \subseteq DOMAIN e.m
  /\ e.m["code"].t = "num"
  /\ e.m["message"].t = "str"

\* from_value::<NodeUnhealthyErrorData>(json["error"]["data"]).  The struct is
\* solana_client_api's; of the data the model sends, an object with a numeric
\* num_slots_behind decodes, a string or null does not.
DecodesAsNodeUnhealthy(d) ==
  /\ IsObject(d)
  /\ "num_slots_behind" \in DOMAIN d.m
  /\ d.m["num_slots_behind"].t = "num"

\* from_value::<RpcSimulateTransactionResult>(json["error"]["data"]); the
\* struct is solana_client_api's: an object with err and logs decodes, null
\* does not.
DecodesAsSimulationResult(d) ==
  /\ IsObject(d)
  /\ {"err", "logs"} \subseteq DOMAIN d.m

Empty == [d |-> "Empty"]

\* An error whose data is dropped whatever its code.
ErrorDataDropped(e) == Empty

\* The match on rpc_error_object.code that selects the error's data.
ErrorData(e) ==
  LET code == e.m["code"].n
      data == Index(e, "data")
  IN  IF code = JSON_RPC_SERVER_ERROR_SEND_TRANSACTION_PREFLIGHT_FAILURE
        THEN IF DecodesAsSimulationResult(data)
               THEN [d |-> "SendTransactionPreflightFailure", sim |-> data]
               ELSE Empty
      ELSE IF code = JSON_RPC_SERVER_ERROR_NODE_UNHEALTHY
        THEN IF DecodesAsNodeUnhealthy(data)
               THEN [d |-> "NodeUnhealthy",
                     num_slots_behind |-> data.m["num_slots_behind"].n]
               ELSE Empty
      ELSE Empty

\* --------------------------------------------------------- Retry-After

Digits == {"0", "1", "2", "3", "4", "5", "6", "7", "8", "9"}

DigitVal(c) ==
  CASE c = "0" -> 0 [] c = "1" -> 1 [] c = "2" -> 2 [] c = "3" -> 3
    [] c = "4" -> 4 [] c = "5" -> 5 [] c = "6" -> 6 [] c = "7" -> 7
    [] c = "8" -> 8 [] c = "9" -> 9

\* A byte outside visible ASCII, on which HeaderValue::to_str fails.
OpaqueByte == "\\x80"

NoHeader == [present |-> FALSE]
Header(bytes) == [present |-> TRUE, bytes |-> bytes]

\* HeaderValue::to_str
ToStrOk(bytes) == \A i \in 1..Len(bytes) : bytes[i] # OpaqueByte

RECURSIVE DecimalValue(_)
DecimalValue(s) ==
  IF s = <<>> THEN 0
  ELSE 10 * DecimalValue(SubSeq(s, 1, Len(s) - 1)) + DigitVal(s[Len(s)])

\* str::parse::<u64>: an optional '+', then one or more decimal digits.  (The
\* header values of the model are too short to overflow 64 bits.)
ParseU64Digits(s) == IF s # <<>> /\ s[1] = "+" THEN Tail(s) ELSE s
ParseU64Ok(s) ==
  /\ ParseU64Digits(s) # <<>>
  /\ \A i \in 1..Len(ParseU64Digits(s)) : ParseU64Digits(s)[i] \in Digits
ParseU64(s) == DecimalValue(ParseU64Digits(s))

\* The range test of a parsed Retry-After value, as a plausible slip has it.
RetryAfterInRangeInclusive(n) == n <= RetryAfterLimit
\* lib.rs:65
RetryAfterInRange(n) == n < RetryAfterLimit

\* The wait of lib.rs:61-70, in milliseconds: the default unless the header is
\* there, is a string, parses as u64 and is below the limit.
BackoffDuration(hdr) ==
  IF /\ hdr.present
     /\ ToStrOk(hdr.bytes)
     /\ ParseU64Ok(hdr.bytes)
     /\ RetryAfterInRange(ParseU64(hdr.bytes))
    THEN ParseU64(hdr.bytes) * MillisPerSec
    ELSE DefaultWaitMillis

\* http::StatusCode::is_success
IsSuccess(status) == 200 <= status /\ status <= 299


\* ------------------------------------------------------------------ state

VARIABLES
  url_valid,    \* whether HttpSender.url is a URI the request builder accepts
  request_id,   \* HttpSender.request_id (AtomicU64)
  stats,        \* HttpSender.stats: the RpcTransportStats behind the RwLock
  lock,         \* the RwLock itself: its writer and its readers
  now,          \* the monotonic clock read by Instant::now()
  lag,          \* history: time spent so far inside HTTP invocations
  aborted,      \* the process was aborted by a panic (panic = "abort" builds)
  th,           \* per sending thread: the locals of its send call
  rd,           \* per reading thread: its get_transport_stats call
  issued,       \* history: the request ids in the order they were taken
  committed,    \* history: the stats totals as of the last completed commit
  returned,     \* history: number of send calls that have returned
  total_slept,  \* history: sum of the backoff waits performed by all calls
  cf            \* the locals of one send_and_confirm_transaction call

tvars == <<url_valid, request_id, stats, lock, now, lag, aborted, th, rd,
           issued, committed, returned, total_slept>>
vars == <<url_valid, request_id, stats, lock, now, lag, aborted, th, rd,
          issued, committed, returned, total_slept, cf>>

Senders == {"s1"}
Readers == {"r1"}
AllSenders == {"s1", "s2"}

NoThread == "none"
NoResult == [kind |-> "none"]

\* RpcTransportStats::default()
ZeroStats == [request_count |-> 0, elapsed_time |-> 0, rate_limited_time |-> 0]

\* lib.rs:45  request.build_request_json(request_id, params).to_string(): the
\* serialized request, which holds the id, the method and the parameters.
\* The call's method and parameters are the same text in every call of the
\* model.
BuildRequestJson(id) == [id |-> id, method |-> "method", params |-> "params"]

NoRequestJson == [id |-> "none"]

\* A thread that is not inside send.
IdleThread ==
  [pc |-> "idle", request_id |-> 0, retries |-> 0, duration |-> 0,
   rate_limited_time |-> 0, request_start_time |-> 0, wake |-> 0,
   result |-> NoResult,
   invocations |-> 0, waits |-> 0, slept |-> 0, hdr |-> NoHeader,
   status |-> 0, body |-> Garbage, commits |-> 0, count_read |-> 0,
   request_json |-> NoRequestJson, sent |-> {}]

IdleReader ==
  [pc |-> "idle", has |-> FALSE, snapshot |-> ZeroStats, expected |-> ZeroStats]

\* ----------------------------------------------------------------- inputs

Statuses == {200, 429, 503}

Headers ==
  { NoHeader,
    Header(<<>>),
    Header(<<"0">>),
    Header(<<"1", "1", "9">>),
    Header(<<"+", "1", "1", "9">>),
    Header(<<"1", "2", "0">>),
    Header(<<"5", "0", "0">>),
    Header(<<"-", "1">>),
    Header(<<"1", "a">>),
    Header(<<"1", OpaqueByte>>) }

ErrObj(code, data) ==
  JObj([k \in {"code", "message", "data"} |->
          IF k = "code" THEN code ELSE IF k = "message" THEN JStr("m") ELSE data])

Envelope(result, error) ==
  JObj([k \in {"result", "error"} |-> IF k = "result" THEN result ELSE error])

SlotsBehind == JObj([k \in {"num_slots_behind"} |-> JNum(3)])
Simulation == JObj([k \in {"err", "logs"} |-> JNull])

Bodies ==
  { Garbage,
    JNull,
    JNum(42),
    JObj([k \in {"result"} |-> JNum(42)]),
    JObj([k \in {"error"} |-> JStr("not-an-object")]),
    Envelope(JNum(42), JNull),
    Envelope(JNull, ErrObj(JStr("x"), JNull)),
    Envelope(JNull, ErrObj(JNum(1), SlotsBehind)),
    Envelope(JNull, ErrObj(JNum(JSON_RPC_SERVER_ERROR_NODE_UNHEALTHY), SlotsBehind)),
    Envelope(JNull, ErrObj(JNum(JSON_RPC_SERVER_ERROR_NODE_UNHEALTHY), JStr("x"))),
    Envelope(JNull, ErrObj(JNum(JSON_RPC_SERVER_ERROR_SEND_TRANSACTION_PREFLIGHT_FAILURE), Simulation)),
    Envelope(JNull, ErrObj(JNum(JSON_RPC_SERVER_ERROR_SEND_TRANSACTION_PREFLIGHT_FAILURE), JNull)) }



\* ------------------------------------------------------------ HttpSender

\* HttpSender::new
InitSender ==
  /\ url_valid \in BOOLEAN
  /\ request_id = 0
  /\ stats = ZeroStats
  /\ lock = [writer |-> NoThread, readers |-> {}]
  /\ now = 0
  /\ lag = 0
  /\ aborted = FALSE
  /\ th = [t \in AllSenders |-> IdleThread]
  /\ rd = [r \in Readers |-> IdleReader]
  /\ issued = <<>>
  /\ committed = ZeroStats
  /\ returned = 0
  /\ total_slept = 0

\* A send call that leaves without running the drop of its StatsUpdater.
LeaveSkippingDrop(rec, res) == [rec EXCEPT !.pc = "done", !.result = res]

\* Leaving send by `return` or `?`: stats_updater goes out of scope, so its
\* drop runs before the caller has the result.
Leave(rec, res) == [rec EXCEPT !.pc = "drop", !.result = res]

\* self.request_id.fetch_add(1, Ordering::Relaxed) without the add.
FetchAddForgotten(v) == [old |-> v, new |-> v]

\* self.request_id.fetch_add(1, Ordering::Relaxed): one atomic step.
FetchAdd(v) == [old |-> v, new |-> v + 1]

\* A StatsUpdater that takes the write lock when it is made.
StatsUpdaterNewLocks(l, t) == [l EXCEPT !.writer = t]

\* lib.rs:146-152  StatsUpdater::new keeps a reference to the RwLock and the
\* start time; it takes no lock.
StatsUpdaterNew(l, t) == l

\* The first lines of send: StatsUpdater::new, the request id, the request
\* body and the retry budget.
SendBegin(t) ==
  /\ ~aborted
  /\ th[t].pc \in {"idle", "done"}
  /\ request_id < MaxCalls
  /\ request_id' = FetchAdd(request_id).new
  /\ issued' = Append(issued, FetchAdd(request_id).old)
  /\ th' = [th EXCEPT ![t] =
              [IdleThread EXCEPT !.pc = "invoke",
                                 !.request_id = FetchAdd(request_id).old,
                                 !.retries = RetryBudget,
                                 !.request_start_time = now,
                                 !.request_json =
                                   BuildRequestJson(FetchAdd(request_id).old)]]
  /\ lock' = StatsUpdaterNew(lock, t)
  /\ UNCHANGED <<url_valid, stats, now, lag, aborted, rd, committed,
                 returned, total_slept, cf>>

\* A request body that is built anew, with the next id, for every attempt.
AttemptBodyRenumbered(rec) == BuildRequestJson(rec.request_id + rec.invocations)

\* lib.rs:53  .body(request_json.clone().into_bytes()): the body an attempt
\* carries.
AttemptBody(rec) == rec.request_json

\* lib.rs:49-57  one more call of http::invoke, with the request it carried.
Attempted(rec) ==
  [rec EXCEPT !.invocations = @ + 1, !.sent = @ \cup {AttemptBody(rec)}]

\* What every completed http::invoke leaves behind: one more invocation, the
\* request it carried, and the response it brought.
Invoked(t, status, hdr, body) ==
  [Attempted(th[t]) EXCEPT !.status = status, !.hdr = hdr, !.body = body]

InvokeFrame ==
  UNCHANGED <<url_valid, request_id, stats, lock, now, lag, aborted, rd, issued,
              committed, returned, total_slept, cf>>

\* lib.rs:49-55: the request builder rejects the URI.
BuildFail(t) ==
  /\ ~aborted
  /\ th[t].pc = "invoke"
  /\ ~url_valid
  /\ th' = [th EXCEPT ![t] = Leave(th[t], [kind |-> "Custom"])]
  /\ InvokeFrame

\* lib.rs:56-57: http::invoke fails.
InvokeFail(t) ==
  /\ ~aborted
  /\ th[t].pc = "invoke"
  /\ url_valid
  /\ th' = [th EXCEPT ![t] =
              Leave(Attempted(th[t]), [kind |-> "Custom"])]
  /\ InvokeFrame

\* A retry test that still passes with the budget used up.
CanRetryInclusive(status, retries) ==
  status = TOO_MANY_REQUESTS /\ retries >= 0

\* A retry test that forgets the status.
CanRetryAnyStatus(status, retries) == retries > 0

\* lib.rs:60  status == TOO_MANY_REQUESTS && too_many_requests_retries > 0
CanRetry(status, retries) ==
  status = TOO_MANY_REQUESTS /\ retries > 0

\* A wait that is accounted one millisecond too long.
AddRateLimitedTimePlusOne(rate_limited_time, duration) ==
  rate_limited_time + duration + 1

\* StatsUpdater::add_rate_limited_time
AddRateLimitedTime(rate_limited_time, duration) == rate_limited_time + duration

\* lib.rs:60-72: a bad status that is retried; the thread goes to sleep.
Resp429Retry(t, status, hdr) ==
  /\ ~aborted
  /\ th[t].pc = "invoke"
  /\ url_valid
  /\ ~IsSuccess(status)
  /\ CanRetry(status, th[t].retries)
  /\ th' = [th EXCEPT ![t] =
              [Invoked(t, status, hdr, Garbage) EXCEPT
                 !.pc = "sleep",
                 !.duration = BackoffDuration(hdr),
                 !.retries = @ - 1,
                 !.wake = now + BackoffDuration(hdr)]]
  /\ InvokeFrame

\* lib.rs:74-81: the sleep is over; the wait is added to the updater and the
\* loop continues.
SleepDone(t) ==
  /\ ~aborted
  /\ th[t].pc = "sleep"
  /\ now >= th[t].wake
  /\ th' = [th EXCEPT ![t] =
              [@ EXCEPT !.pc = "invoke",
                        !.rate_limited_time = AddRateLimitedTime(@, th[t].duration),
                        !.duration = 0,
                        !.wake = 0,
                        !.hdr = NoHeader,
                        !.waits = @ + 1,
                        !.slept = @ + th[t].duration]]
  /\ total_slept' = total_slept + th[t].duration
  /\ UNCHANGED <<url_valid, request_id, stats, lock, now, lag, aborted, rd,
                 issued, committed, returned, cf>>

\* lib.rs:59, 83-86: a bad status that is not retried.
RespBadStatus(t, status) ==
  /\ ~aborted
  /\ th[t].pc = "invoke"
  /\ url_valid
  /\ ~IsSuccess(status)
  /\ ~CanRetry(status, th[t].retries)
  /\ th' = [th EXCEPT ![t] =
              Leave(Invoked(t, status, NoHeader, Garbage),
                    [kind |-> "ForUser", status |-> status])]
  /\ InvokeFrame

\* lib.rs:89: the body is no JSON.
RespUnparsable(t, status) ==
  /\ ~aborted
  /\ th[t].pc = "invoke"
  /\ url_valid
  /\ IsSuccess(status)
  /\ th' = [th EXCEPT ![t] =
              Leave(Invoked(t, status, NoHeader, Garbage), [kind |-> "SerdeJson"])]
  /\ InvokeFrame

\* lib.rs:90-121: a well-formed error object.
RespRpcError(t, status, body) ==
  /\ ~aborted
  /\ th[t].pc = "invoke"
  /\ url_valid
  /\ IsSuccess(status)
  /\ ParseOk(body)
  /\ IsObject(Index(body, "error"))
  /\ DecodesAsRpcErrorObject(Index(body, "error"))
  /\ th' = [th EXCEPT ![t] =
              Leave(Invoked(t, status, NoHeader, body),
                    [kind |-> "RpcResponseError",
                     code |-> Index(body, "error").m["code"].n,
                     message |-> Index(body, "error").m["message"].s,
                     data |-> ErrorData(Index(body, "error"))])]
  /\ InvokeFrame

\* lib.rs:90-91, 122-127: an error object that is no {code, message}.
RespMalformedError(t, status, body) ==
  /\ ~aborted
  /\ th[t].pc = "invoke"
  /\ url_valid
  /\ IsSuccess(status)
  /\ ParseOk(body)
  /\ IsObject(Index(body, "error"))
  /\ ~DecodesAsRpcErrorObject(Index(body, "error"))
  /\ th' = [th EXCEPT ![t] =
              Leave(Invoked(t, status, NoHeader, body),
                    [kind |-> "RpcRequestError", raw |-> Index(body, "error")])]
  /\ InvokeFrame

\* lib.rs:90, 130: no error object; the result is taken out of the envelope.
RespResult(t, status, body) ==
  /\ ~aborted
  /\ th[t].pc = "invoke"
  /\ url_valid
  /\ IsSuccess(status)
  /\ ParseOk(body)
  /\ ~IsObject(Index(body, "error"))
  /\ ~IndexMutPanics(body)
  /\ th' = [th EXCEPT ![t] =
              Leave(Invoked(t, status, NoHeader, body),
                    [kind |-> "Ok", value |-> Index(body, "result")])]
  /\ InvokeFrame

\* lib.rs:130 on a body that is neither an object nor null: json["result"]
\* panics.  Where panics unwind, the StatsUpdater is dropped on the way out.
RespPanicUnwind(t, status, body) ==
  /\ ~aborted
  /\ th[t].pc = "invoke"
  /\ url_valid
  /\ IsSuccess(status)
  /\ ParseOk(body)
  /\ ~IsObject(Index(body, "error"))
  /\ IndexMutPanics(body)
  /\ th' = [th EXCEPT ![t] =
              Leave(Invoked(t, status, NoHeader, body), [kind |-> "Panic"])]
  /\ InvokeFrame

\* The same panic where panics abort (the default of the wasm targets): the
\* process ends there.
RespPanicAbort(t, status, body) ==
  /\ ~aborted
  /\ th[t].pc = "invoke"
  /\ url_valid
  /\ IsSuccess(status)
  /\ ParseOk(body)
  /\ ~IsObject(Index(body, "error"))
  /\ IndexMutPanics(body)
  /\ aborted' = TRUE
  /\ th' = [th EXCEPT ![t] =
              [Invoked(t, status, NoHeader, body) EXCEPT !.pc = "aborted"]]
  /\ UNCHANGED <<url_valid, request_id, stats, lock, now, lag, rd, issued,
                 committed, returned, total_slept, cf>>

\* Time passes while threads sleep: the clock moves to the next wake-up.
Sleeping == {t \in AllSenders : th[t].pc = "sleep" /\ th[t].wake > now}
Tick ==
  /\ ~aborted
  /\ Sleeping # {}
  /\ \E t \in Sleeping :
       /\ \A u \in Sleeping : th[t].wake <= th[u].wake
       /\ now' = th[t].wake
  /\ UNCHANGED <<url_valid, request_id, stats, lock, lag, aborted, th, rd,
                 issued, committed, returned, total_slept, cf>>

\* Time passes while a thread is inside http::invoke.
TimePasses ==
  /\ ~aborted
  /\ \E t \in AllSenders : th[t].pc = "invoke"
  /\ lag < MaxLag
  /\ lag' = lag + 1
  /\ now' = now + 1
  /\ UNCHANGED <<url_valid, request_id, stats, lock, aborted, th, rd, issued,
                 committed, returned, total_slept, cf>>


\* --------------------------------------------- StatsUpdater::drop, readers

\* A reader that does not wait for the writer.
CanReadUnguarded == TRUE

\* RwLock::read is granted while no writer holds the lock.
CanRead == lock.writer = NoThread

\* A writer that does not wait for anybody.
CanWriteUnguarded == TRUE

\* RwLock::write is granted while nobody holds the lock.
CanWrite == lock.writer = NoThread /\ lock.readers = {}

DropFrame ==
  UNCHANGED <<url_valid, request_id, now, lag, aborted, rd, issued, total_slept, cf>>

\* lib.rs:161-162  let mut stats = self.stats.write().unwrap(); and the load
\* of `stats.request_count += 1`
DropLock(t) ==
  /\ ~aborted
  /\ th[t].pc = "drop"
  /\ CanWrite
  /\ lock' = [lock EXCEPT !.writer = t]
  /\ th' = [th EXCEPT ![t].pc = "drop_count",
                      ![t].count_read = stats.request_count]
  /\ UNCHANGED <<stats, committed, returned>>
  /\ DropFrame

\* lib.rs:162  the store of `stats.request_count += 1`
DropCount(t) ==
  /\ ~aborted
  /\ th[t].pc = "drop_count"
  /\ stats' = [stats EXCEPT !.request_count = th[t].count_read + 1]
  /\ th' = [th EXCEPT ![t].pc = "drop_elapsed", ![t].commits = @ + 1,
                      ![t].count_read = 0]
  /\ UNCHANGED <<lock, committed, returned>>
  /\ DropFrame

\* lib.rs:163  stats.elapsed_time += Instant::now().duration_since(start);
DropElapsed(t) ==
  /\ ~aborted
  /\ th[t].pc = "drop_elapsed"
  /\ stats' = [stats EXCEPT !.elapsed_time = @ + (now - th[t].request_start_time)]
  /\ th' = [th EXCEPT ![t].pc = "drop_rate_limited"]
  /\ UNCHANGED <<lock, committed, returned>>
  /\ DropFrame

\* lib.rs:164-165  stats.rate_limited_time += self.rate_limited_time; the
\* guard is released and send returns.
DropRateLimited(t) ==
  /\ ~aborted
  /\ th[t].pc = "drop_rate_limited"
  /\ stats' = [stats EXCEPT !.rate_limited_time = @ + th[t].rate_limited_time]
  /\ lock' = [lock EXCEPT !.writer = NoThread]
  /\ th' = [th EXCEPT ![t].pc = "done"]
  /\ committed' = stats'
  /\ returned' = returned + 1
  /\ DropFrame

ReadFrame ==
  UNCHANGED <<url_valid, request_id, stats, now, lag, aborted, th, issued, committed,
              returned, total_slept, cf>>

\* lib.rs:135  self.stats.read().unwrap().clone(): the read guard is taken and
\* the three counters are copied.
StatsRead(r) ==
  /\ ~aborted
  /\ rd[r].pc = "idle"
  /\ CanRead
  /\ lock' = [lock EXCEPT !.readers = @ \cup {r}]
  /\ rd' = [rd EXCEPT ![r] = [pc |-> "cloned", has |-> TRUE, snapshot |-> stats,
                               expected |-> committed]]
  /\ ReadFrame

\* lib.rs:135-136  the read guard is dropped and the snapshot returned.
StatsReadReturn(r) ==
  /\ ~aborted
  /\ rd[r].pc = "cloned"
  /\ lock' = [lock EXCEPT !.readers = @ \ {r}]
  /\ rd' = [rd EXCEPT ![r].pc = "idle"]
  /\ ReadFrame

\* ------------------------------------------------------ specifications

CfIdle == [pc |-> "idle"]

Init ==
  /\ InitSender
  /\ cf = CfIdle

Next ==
  \/ \E t \in Senders : SendBegin(t)
  \/ \E t \in Senders : BuildFail(t)
  \/ \E t \in Senders : InvokeFail(t)
  \/ \E t \in Senders, status \in Statuses, hdr \in Headers :
       Resp429Retry(t, status, hdr)
  \/ \E t \in Senders : SleepDone(t)
  \/ \E t \in Senders, status \in Statuses : RespBadStatus(t, status)
  \/ \E t \in Senders, status \in Statuses :
       RespUnparsable(t, status)
  \/ \E t \in Senders, status \in Statuses, body \in Bodies :
       RespRpcError(t, status, body)
  \/ \E t \in Senders, status \in Statuses, body \in Bodies :
       RespMalformedError(t, status, body)
  \/ \E t \in Senders, status \in Statuses, body \in Bodies :
       RespResult(t, status, body)
  \/ \E t \in Senders, status \in Statuses, body \in Bodies :
       RespPanicUnwind(t, status, body)
  \/ \E t \in Senders, status \in Statuses, body \in Bodies :
       RespPanicAbort(t, status, body)
  \/ Tick
  \/ TimePasses
  \/ \E t \in Senders : DropLock(t)
  \/ \E t \in Senders : DropCount(t)
  \/ \E t \in Senders : DropElapsed(t)
  \/ \E t \in Senders : DropRateLimited(t)

Spec == Init /\ [][Next]_vars


\* Several threads share one HttpSender: two senders and a reader of the
\* stats, with the few responses that concurrency needs.  Time passes in the
\* backoff sleeps only.
ConcHeaders == {NoHeader}
ConcBodies == {JObj([k \in {"result"} |-> JNum(42)])}

InitConc ==
  /\ InitSender
  /\ url_valid
  /\ cf = CfIdle

NextConc ==
  \/ \E t \in AllSenders : SendBegin(t)
  \/ \E t \in AllSenders, status \in Statuses, hdr \in ConcHeaders :
       /\ RetryBudget - th[t].retries < MaxConcRetries
       /\ Resp429Retry(t, status, hdr)
  \/ \E t \in AllSenders : SleepDone(t)
  \/ \E t \in AllSenders, status \in Statuses \ {TOO_MANY_REQUESTS} :
       RespBadStatus(t, status)
  \/ \E t \in AllSenders, status \in Statuses, body \in ConcBodies :
       RespResult(t, status, body)
  \/ Tick
  \/ \E t \in AllSenders : DropLock(t)
  \/ \E t \in AllSenders : DropCount(t)
  \/ \E t \in AllSenders : DropElapsed(t)
  \/ \E t \in AllSenders : DropRateLimited(t)
  \/ \E r \in Readers : StatsRead(r)
  \/ \E r \in Readers : StatsReadReturn(r)

SpecConc == InitConc /\ [][NextConc]_vars


\* ------------------------------ WasmRpcClient::send_and_confirm_transaction

\* wasm_rpc_client.rs:44  let delay_millis = 500;
DelayMillis == 500

Signatures == {"sig1", "sig2"}
\* The transaction's own recent blockhash, and what the cluster may report as
\* its latest blockhash.
TxBlockhash == "hTx"
LatestBlockhashes == {"hA", "hB"}
ClientErrors == {"io"}
TransactionErrors == {"AccountInUse", "InsufficientFunds"}

\* Option<Result<(), TransactionError>>
StatusNone == [some |-> FALSE]
StatusOk == [some |-> TRUE, ok |-> TRUE]
StatusErr(e) == [some |-> TRUE, ok |-> FALSE, err |-> e]

Ok(v) == [ok |-> TRUE, val |-> v]
Err(e) == [ok |-> FALSE, err |-> e]

\* One call of the wrapped RpcClient (or of the sleep primitive), as the
\* history records it.
Call(op, arg, ret) == [op |-> op, arg |-> arg, ret |-> ret]

UnableToConfirm == [kind |-> "ForUser", msg |-> "unable to confirm transaction"]

\* The locals at the start of send_and_confirm_transaction(&transaction);
\* `test` is cfg!(test).
CfStart(durable, test) ==
  [pc |-> "send", durable |-> durable, test |-> test,
   signature |-> "none", recent_blockhash |-> "none", status_retry |-> 0,
   result |-> NoResult, calls |-> <<>>]

CfFrame == UNCHANGED tvars

CfReturn(c, res) == [c EXCEPT !.pc = "done", !.result = res]
CfCalled(c, call) == [c EXCEPT !.calls = Append(@, call)]

\* A failure after which the transaction is sent again.
PropagateResend(c, e) == [c EXCEPT !.pc = "send", !.status_retry = 0]

\* wasm_rpc_client.rs:22,25,32,36  the `?` after a client call that failed:
\* send_and_confirm_transaction returns that error.
Propagate(c, e) == CfReturn(c, [kind |-> "ClientError", err |-> e])

\* The transaction's own blockhash, whatever was fetched.
ReferenceOfTransaction(c) == TxBlockhash

\* wasm_rpc_client.rs:36  `&recent_blockhash`: the binding made at lines
\* 24-29, read by every validity check.
ReferenceOf(c) == c.recent_blockhash

\* wasm_rpc_client.rs:22-29  send_transaction succeeds; the reference
\* blockhash of a transaction without durable nonce is its own.
SendTransactionOk(sig) ==
  /\ cf.pc = "send"
  /\ cf' = [CfCalled(cf, Call("send_transaction", "tx", Ok(sig))) EXCEPT
              !.signature = sig,
              !.pc = IF cf.durable THEN "latest" ELSE "status",
              !.recent_blockhash = IF cf.durable THEN @ ELSE TxBlockhash]
  /\ CfFrame

\* wasm_rpc_client.rs:22  send_transaction(..)?
SendTransactionErr(e) ==
  /\ cf.pc = "send"
  /\ cf' = Propagate(CfCalled(cf, Call("send_transaction", "tx", Err(e))), e)
  /\ CfFrame

\* wasm_rpc_client.rs:25-26
GetLatestBlockhashOk(h) ==
  /\ cf.pc = "latest"
  /\ cf' = [CfCalled(cf, Call("get_latest_blockhash_with_commitment",
                              "processed", Ok(h))) EXCEPT
              !.recent_blockhash = h, !.pc = "status"]
  /\ CfFrame

\* wasm_rpc_client.rs:25  get_latest_blockhash_with_commitment(..)?
GetLatestBlockhashErr(e) ==
  /\ cf.pc = "latest"
  /\ cf' = Propagate(CfCalled(cf, Call("get_latest_blockhash_with_commitment",
                                      "processed", Err(e))), e)
  /\ CfFrame

\* A failed status that is swallowed: polling goes on.
StatusFailedIgnored(c, e) == [c EXCEPT !.pc = "valid"]

\* wasm_rpc_client.rs:34  Some(Err(e)) => return Err(e.into())
StatusFailed(c, e) == CfReturn(c, [kind |-> "TransactionError", err |-> e])

\* wasm_rpc_client.rs:32  get_signature_status(&signature)?
GetSignatureStatusErr(e) ==
  /\ cf.pc = "status"
  /\ cf.status_retry < MaxPolls
  /\ cf' = Propagate(CfCalled(cf, Call("get_signature_status", cf.signature, Err(e))), e)
  /\ CfFrame

\* A confirmed status after which the blockhash is checked all the same.
StatusConfirmedStillChecked(c) == [c EXCEPT !.pc = "valid"]

\* wasm_rpc_client.rs:33  Some(Ok(_)) => return Ok(signature)
StatusConfirmed(c) == CfReturn(c, [kind |-> "Ok", signature |-> c.signature])

\* wasm_rpc_client.rs:32-33
GetSignatureStatusConfirmed ==
  /\ cf.pc = "status"
  /\ cf.status_retry < MaxPolls
  /\ cf' = StatusConfirmed(CfCalled(cf, Call("get_signature_status",
                                             cf.signature, Ok(StatusOk))))
  /\ CfFrame

\* wasm_rpc_client.rs:34
GetSignatureStatusFailed(e) ==
  /\ cf.pc = "status"
  /\ cf.status_retry < MaxPolls
  /\ cf' = StatusFailed(CfCalled(cf, Call("get_signature_status", cf.signature,
                                          Ok(StatusErr(e)))), e)
  /\ CfFrame

\* wasm_rpc_client.rs:35  None => the blockhash is checked next
GetSignatureStatusAbsent ==
  /\ cf.pc = "status"
  /\ cf.status_retry < MaxPolls
  /\ cf' = [CfCalled(cf, Call("get_signature_status", cf.signature,
                              Ok(StatusNone))) EXCEPT !.pc = "valid"]
  /\ CfFrame

\* wasm_rpc_client.rs:36  is_blockhash_valid(..)?
IsBlockhashValidErr(e) ==
  /\ cf.pc = "valid"
  /\ cf' = Propagate(CfCalled(cf, Call("is_blockhash_valid", ReferenceOf(cf),
                                      Err(e))), e)
  /\ CfFrame

\* An invalid blockhash that starts the send over.
BlockhashInvalidResend(c) == [c EXCEPT !.pc = "send", !.status_retry = 0]

\* wasm_rpc_client.rs:36-38, 57-65  break 'sending leaves both loops; what
\* is left of the function is the generic error.
BlockhashInvalid(c) == CfReturn(c, UnableToConfirm)

\* wasm_rpc_client.rs:36-38
IsBlockhashValidFalse ==
  /\ cf.pc = "valid"
  /\ cf' = BlockhashInvalid(CfCalled(cf, Call("is_blockhash_valid",
                                              ReferenceOf(cf), Ok(FALSE))))
  /\ CfFrame

\* wasm_rpc_client.rs:19  GET_STATUS_RETRIES = usize::MAX.  The number below is
\* the largest integer TLC has and stands for usize::MAX (2^32 - 1 on wasm32,
\* 2^64 - 1 on 64-bit targets); no run of the model polls that often.
GET_STATUS_RETRIES == 2147483647

\* A poll budget of two, in place of usize::MAX.
PollBudgetTwo(status_retry) == status_retry + 1 < 2

\* wasm_rpc_client.rs:31  `for status_retry in 0..GET_STATUS_RETRIES`: after
\* poll status_retry the range yields another value.
PollBudgetLeft(status_retry) == status_retry + 1 < GET_STATUS_RETRIES

\* A poll whose `continue` gives up instead.
NextPollGivesUp(c) == CfReturn(c, UnableToConfirm)

\* wasm_rpc_client.rs:31,52,21,59-65  `continue`: the inner range yields the
\* next poll; were it exhausted, the single pass of the outer loop
\* (SEND_RETRIES = 1) would end too and the generic error would be returned.
NextPoll(c) ==
  IF PollBudgetLeft(c.status_retry)
    THEN [c EXCEPT !.pc = "status", !.status_retry = @ + 1]
    ELSE CfReturn(c, UnableToConfirm)

\* wasm_rpc_client.rs:39-53  still valid, outside of tests: sleep, then poll
\* again.
IsBlockhashValidTrueSleep ==
  /\ cf.pc = "valid"
  /\ ~cf.test /\ cf.status_retry < GET_STATUS_RETRIES
  /\ cf' = [CfCalled(cf, Call("is_blockhash_valid", ReferenceOf(cf),
                              Ok(TRUE))) EXCEPT !.pc = "sleep"]
  /\ CfFrame

\* wasm_rpc_client.rs:39  still valid, under cfg(test): the next poll follows
\* at once.
IsBlockhashValidTrueNoSleep ==
  /\ cf.pc = "valid"
  /\ ~(~cf.test /\ cf.status_retry < GET_STATUS_RETRIES)
  /\ cf' = NextPoll(CfCalled(cf, Call("is_blockhash_valid",
                                      ReferenceOf(cf), Ok(TRUE))))
  /\ CfFrame

\* wasm_rpc_client.rs:44-52  the 500 ms sleep and `continue`
PollSleep ==
  /\ cf.pc = "sleep"
  /\ cf' = NextPoll(CfCalled(cf, Call("sleep", "500ms", Ok(TRUE))))
  /\ CfFrame

InitConfirm ==
  /\ InitSender
  /\ url_valid
  /\ \E durable \in BOOLEAN, test \in BOOLEAN : cf = CfStart(durable, test)

NextConfirm ==
  \/ \E sig \in Signatures : SendTransactionOk(sig)
  \/ \E e \in ClientErrors : SendTransactionErr(e)
  \/ \E h \in LatestBlockhashes : GetLatestBlockhashOk(h)
  \/ \E e \in ClientErrors : GetLatestBlockhashErr(e)
  \/ \E e \in ClientErrors : GetSignatureStatusErr(e)
  \/ GetSignatureStatusConfirmed
  \/ \E e \in TransactionErrors : GetSignatureStatusFailed(e)
  \/ GetSignatureStatusAbsent
  \/ \E e \in ClientErrors : IsBlockhashValidErr(e)
  \/ IsBlockhashValidFalse
  \/ IsBlockhashValidTrueSleep
  \/ IsBlockhashValidTrueNoSleep
  \/ PollSleep

SpecConfirm == InitConfirm /\ [][NextConfirm]_vars


\* ------------------------------------------------------------- properties

\* A send call that has left the retry loop: its StatsUpdater is being
\* dropped, or it has returned.
Leaving == {"drop", "drop_count", "drop_elapsed", "drop_rate_limited", "done"}
InFlight == {"invoke", "sleep"} \cup (Leaving \ {"done"})

\* C1: every send call commits to the stats exactly once, on every exit path:
\* a call that has returned has added exactly 1 to the request counter, a call
\* that has not reached its drop has added nothing, and the counter is the
\* number of returned calls plus the calls past the increment of their drop.
C1_CommitsOncePerSend ==
  /\ \A t \in AllSenders :
       /\ th[t].pc = "done" => th[t].commits = 1
       /\ th[t].pc \in {"invoke", "sleep", "drop", "drop_count"} =>
            th[t].commits = 0
  /\ stats.request_count =
       returned + Cardinality({t \in AllSenders :
                      th[t].pc \in {"drop_elapsed", "drop_rate_limited"}})

\* C1 witness: the second call of the sender has returned a transport error
\* after five retries, and the counter stands at 2.
C1_Witness ==
  /\ th["s1"].pc = "done"
  /\ th["s1"].result.kind = "ForUser"
  /\ th["s1"].waits = RetryBudget
  /\ returned = 2
  /\ stats.request_count = 2

\* C2: one send call makes at most 6 HTTP invocations and 5 waits; every wait
\* uses up one retry; a call that ends on a 429 has made exactly 6 invocations
\* and 5 waits and returns the transport error of that status; and the
\* rate-limited time of a call is the sum of the waits it performed.
C2_FiveRetriesThenError ==
  \A t \in AllSenders :
    /\ th[t].invocations <= RetryBudget + 1
    /\ th[t].waits <= RetryBudget
    /\ th[t].pc \in InFlight \cup {"done"} =>
         th[t].waits + (IF th[t].pc = "sleep" THEN 1 ELSE 0)
           = RetryBudget - th[t].retries
    /\ th[t].pc \in Leaving /\ th[t].status = TOO_MANY_REQUESTS
                            /\ th[t].result.kind = "ForUser" =>
         /\ th[t].invocations = RetryBudget + 1
         /\ th[t].waits = RetryBudget
         /\ th[t].result = [kind |-> "ForUser", status |-> TOO_MANY_REQUESTS]
    /\ th[t].pc \in Leaving => th[t].rate_limited_time = th[t].slept
    /\ th[t].pc = "done" /\ returned = 1 =>
         stats.rate_limited_time = th[t].slept

\* C2 witness: a call answered 429 six times has returned.
C2_Witness ==
  /\ th["s1"].pc = "done"
  /\ th["s1"].status = TOO_MANY_REQUESTS
  /\ th["s1"].invocations = 6
  /\ th["s1"].waits = 5
  /\ th["s1"].slept = 2500
  /\ returned = 1
  /\ stats.rate_limited_time = 2500

\* The `error` field of the envelope is there and is neither an object nor
\* null.
ErrorFieldMalformed(body) ==
  /\ body # Garbage
  /\ IsObject(body)
  /\ "error" \in DOMAIN body.m
  /\ ~IsObject(body.m["error"])
  /\ body.m["error"] # JNull

\* C3: an envelope with a success status whose `error` field is present but
\* is not an object makes send return a request error, never a success value
\* and never a panic.
C3_MalformedErrorIsRequestError ==
  \A t \in AllSenders :
    th[t].pc \in Leaving \cup {"aborted"}
      /\ IsSuccess(th[t].status) /\ ErrorFieldMalformed(th[t].body) =>
        th[t].pc # "aborted" /\ th[t].result.kind = "RpcRequestError"

DigitChars == <<"0", "1", "2", "3", "4", "5", "6", "7", "8", "9">>

\* The decimal numeral of n.
RECURSIVE Numeral(_)
Numeral(n) ==
  IF n < 10 THEN <<DigitChars[n + 1]>>
  ELSE Numeral(n \div 10) \o <<DigitChars[(n % 10) + 1]>>

\* The seconds a Retry-After header asks for, when it is the numeral (with or
\* without a sign '+') of an integer from 0 to 119.
RetryAfterSeconds(hdr) ==
  {n \in 0..119 : hdr.present /\ hdr.bytes \in {Numeral(n), <<"+">> \o Numeral(n)}}

\* C4: the wait before each 429 retry is n seconds when the response's
\* Retry-After header is an integer n with 0 <= n < 120, and the 500 ms
\* default in every other case, whatever the earlier responses of the call
\* were.
C4_WaitFromRetryAfter ==
  \A t \in AllSenders :
    th[t].pc = "sleep" =>
      th[t].duration =
        IF RetryAfterSeconds(th[t].hdr) # {}
          THEN 1000 * (CHOOSE n \in RetryAfterSeconds(th[t].hdr) : TRUE)
          ELSE 500

\* C4 witness: after a first wait of 119 seconds, a 429 with Retry-After: 120
\* is waited for 500 ms.
C4_Witness ==
  /\ th["s1"].pc = "sleep"
  /\ th["s1"].waits = 1
  /\ th["s1"].slept = 119000
  /\ th["s1"].hdr = Header(<<"1", "2", "0">>)
  /\ th["s1"].duration = 500

\* C5: a non-success status other than 429 ends the call at once with a
\* transport error carrying that status: the call that received it is never
\* found sleeping or about to invoke again, whatever budget remains.
C5_BadStatusIsTerminal ==
  \A t \in AllSenders :
    th[t].pc # "idle" /\ th[t].invocations > 0
      /\ ~IsSuccess(th[t].status) /\ th[t].status # TOO_MANY_REQUESTS
      /\ th[t].status # 0 =>
        /\ th[t].pc \in Leaving
        /\ th[t].result = [kind |-> "ForUser", status |-> th[t].status]
        /\ th[t].waits = RetryBudget - th[t].retries

\* C5 witness: a 503 after two 429 retries, with three retries left.
C5_Witness ==
  /\ th["s1"].pc = "done"
  /\ th["s1"].status = 503
  /\ th["s1"].waits = 2
  /\ th["s1"].invocations = 3
  /\ th["s1"].retries = 3
  /\ th["s1"].result = [kind |-> "ForUser", status |-> 503]

\* C6: request ids are strictly increasing in the order they are taken, and
\* two calls never hold the same id.
C6_RequestIdsIncrease ==
  /\ \A i, j \in 1..Len(issued) : i < j => issued[i] < issued[j]
  /\ \A t, u \in AllSenders :
       t # u /\ th[t].pc # "idle" /\ th[u].pc # "idle" =>
         th[t].request_id # th[u].request_id

\* C6 witness: two calls are in flight at once, the later one with the larger
\* id.
C6_Witness ==
  /\ th["s2"].pc = "invoke"
  /\ th["s1"].pc = "sleep"
  /\ th["s1"].request_id = 0
  /\ th["s2"].request_id = 1
  /\ issued = <<0, 1>>

\* C7: a snapshot returned by get_transport_stats is never torn: its three
\* counters are the totals of the commits completed when it was taken.
C7_SnapshotNotTorn ==
  \A r \in Readers : rd[r].has => rd[r].snapshot = rd[r].expected

\* C7 witness: a reader holds a snapshot of one commit with its rate-limited
\* time, while another send call waits for the write lock.
C7_Witness ==
  /\ rd["r1"].pc = "cloned"
  /\ rd["r1"].snapshot.request_count = 1
  /\ rd["r1"].snapshot.rate_limited_time = 500
  /\ rd["r1"].snapshot.elapsed_time >= 500
  /\ \E t \in AllSenders : th[t].pc = "drop"

\* C8: concurrent send calls lose no stats update: once every started call has
\* returned, the request count is the number of calls and the rate-limited
\* time is the sum of all their waits; before that the count never exceeds
\* the number of ids issued.
C8_NoLostUpdate ==
  /\ stats.request_count <= Len(issued)
  /\ (\A t \in AllSenders : th[t].pc \in {"idle", "done"}) =>
       /\ stats.request_count = Len(issued)
       /\ stats.rate_limited_time = total_slept

\* C8 witness: two calls on two threads have both returned, each after a wait.
C8_Witness ==
  /\ th["s1"].pc = "done"
  /\ th["s2"].pc = "done"
  /\ th["s1"].waits = 1
  /\ th["s2"].waits = 1
  /\ stats.request_count = 2
  /\ stats.rate_limited_time = 1000

IsFailedStatus(call) ==
  /\ call.op = "get_signature_status"
  /\ call.ret.ok
  /\ call.ret.val.some
  /\ ~call.ret.val.ok

\* C9: when get_signature_status returns Some(Err(e)), the call returns
\* exactly e and makes no further client call and no sleep.
C9_FailedStatusIsReturned ==
  cf.pc # "idle" =>
    \A i \in 1..Len(cf.calls) :
      IsFailedStatus(cf.calls[i]) =>
        /\ i = Len(cf.calls)
        /\ cf.pc = "done"
        /\ cf.result = [kind |-> "TransactionError", err |-> cf.calls[i].ret.val.err]

\* C9 witness: the status fails at the second poll.
C9_Witness ==
  /\ cf.pc = "done"
  /\ cf.status_retry = 1
  /\ cf.result = [kind |-> "TransactionError", err |-> "InsufficientFunds"]

IsInvalidBlockhash(call) ==
  /\ call.op = "is_blockhash_valid"
  /\ call.ret.ok
  /\ call.ret.val = FALSE

SendCalls(calls) ==
  Cardinality({i \in 1..Len(calls) : calls[i].op = "send_transaction"})

\* C10: when the status is absent and the reference blockhash is reported
\* invalid, the call leaves the poll loop and returns the generic error;
\* send_transaction is called once per call and never again.
C10_InvalidBlockhashGivesUp ==
  cf.pc # "idle" =>
    /\ SendCalls(cf.calls) = (IF cf.pc = "send" THEN 0 ELSE 1)
    /\ \A i \in 1..Len(cf.calls) :
         IsInvalidBlockhash(cf.calls[i]) =>
           /\ i = Len(cf.calls)
           /\ cf.calls[i - 1].op = "get_signature_status"
           /\ cf.calls[i - 1].ret = Ok(StatusNone)
           /\ cf.pc = "done"
           /\ cf.result = UnableToConfirm

\* C10 witness: a durable-nonce transaction whose fetched blockhash is found
\* invalid at the second poll.
C10_Witness ==
  /\ cf.pc = "done"
  /\ cf.durable
  /\ cf.recent_blockhash = "hA"
  /\ cf.status_retry = 1
  /\ cf.result = UnableToConfirm


IsConfirmedStatus(call) ==
  /\ call.op = "get_signature_status"
  /\ call.ret.ok
  /\ call.ret.val.some
  /\ call.ret.val.ok

\* C11: when get_signature_status returns Some(Ok(_)), the call returns Ok with
\* exactly the signature send_transaction returned, and that status query is
\* the last client call: no blockhash check, no sleep, nothing else follows.
C11_ConfirmedStatusReturnsSignature ==
  cf.pc # "idle" =>
    \A i \in 1..Len(cf.calls) :
      IsConfirmedStatus(cf.calls[i]) =>
        /\ i = Len(cf.calls)
        /\ cf.pc = "done"
        /\ cf.calls[1].op = "send_transaction"
        /\ cf.calls[i].arg = cf.calls[1].ret.val
        /\ cf.result = [kind |-> "Ok", signature |-> cf.calls[1].ret.val]

\* C11 witness: the status is confirmed at the second poll and the call
\* returns the signature "sig2" it was given.
C11_Witness ==
  /\ cf.pc = "done"
  /\ cf.status_retry = 1
  /\ cf.calls[1].ret = Ok("sig2")
  /\ cf.result = [kind |-> "Ok", signature |-> "sig2"]


\* The envelope's `error` is an object with an integer code and a string
\* message.
WellFormedError(body) ==
  /\ body # Garbage
  /\ IsObject(body)
  /\ "error" \in DOMAIN body.m
  /\ IsObject(body.m["error"])
  /\ {"code", "message"} \subseteq DOMAIN body.m["error"].m
  /\ body.m["error"].m["code"].t = "num"
  /\ body.m["error"].m["message"].t = "str"

\* C12: a well-formed error envelope received with a success status ends the
\* call (it is the call's last HTTP invocation) with an RPC-response error of
\* that code and message, whose data is the simulation result for the
\* preflight-failure code with decodable data, NodeUnhealthy{num_slots_behind}
\* for the node-unhealthy code with decodable data, and Empty otherwise.
C12_ErrorEnvelopeIsDecoded ==
  \A t \in AllSenders :
    th[t].pc # "idle" /\ IsSuccess(th[t].status) /\ WellFormedError(th[t].body) =>
      LET err == th[t].body.m["error"]
          code == err.m["code"].n
          has_data == "data" \in DOMAIN err.m
      IN  /\ th[t].pc \in Leaving
          /\ th[t].invocations = th[t].waits + 1
          /\ th[t].result.kind = "RpcResponseError"
          /\ th[t].result.code = code
          /\ th[t].result.message = err.m["message"].s
          /\ th[t].result.data =
               CASE code = -32002 /\ has_data /\ DecodesAsSimulationResult(err.m["data"]) ->
                      [d |-> "SendTransactionPreflightFailure", sim |-> err.m["data"]]
                 [] code = -32005 /\ has_data /\ DecodesAsNodeUnhealthy(err.m["data"]) ->
                      [d |-> "NodeUnhealthy",
                       num_slots_behind |-> err.m["data"].m["num_slots_behind"].n]
                 [] OTHER -> [d |-> "Empty"]

\* C12 witness: after one 429 retry, a node-unhealthy error with
\* {num_slots_behind: 3} has been returned as the typed error carrying 3.
C12_Witness ==
  /\ th["s1"].pc = "done"
  /\ th["s1"].waits = 1
  /\ th["s1"].result.kind = "RpcResponseError"
  /\ th["s1"].result.code = -32005
  /\ th["s1"].result.data = [d |-> "NodeUnhealthy", num_slots_behind |-> 3]

\* A call after which send_and_confirm_transaction returns: a failed client
\* call, a status that is present, or a blockhash that is no longer valid.
EndsPolling(call) ==
  \/ ~call.ret.ok
  \/ call.op = "get_signature_status" /\ call.ret.val.some
  \/ call.op = "is_blockhash_valid" /\ call.ret.val = FALSE

\* The polls completed so far: the validity checks that answered "valid" and
\* whose `continue` has been taken.
CompletedPolls ==
  Cardinality({i \in 1..Len(cf.calls) :
                 /\ cf.calls[i].op = "is_blockhash_valid"
                 /\ cf.calls[i].ret = Ok(TRUE)
                 /\ (~cf.test => i < Len(cf.calls))})

CallsOf(op) == {i \in 1..Len(cf.calls) : cf.calls[i].op = op}

\* C14: the reference blockhash is fixed before polling starts.  With a
\* durable nonce it is the answer of one call of
\* get_latest_blockhash_with_commitment(processed), made right after the
\* successful send_transaction and before the first status query, and never
\* fetched again; otherwise it is the transaction's own recent blockhash and
\* get_latest_blockhash_with_commitment is never called.  Every validity check
\* is given that reference.
C14_ReferenceBlockhashFixed ==
  cf.pc # "idle" =>
    IF cf.durable
      THEN /\ CallsOf("get_latest_blockhash_with_commitment") \subseteq {2}
           /\ 2 \in CallsOf("get_latest_blockhash_with_commitment") =>
                /\ cf.calls[1].op = "send_transaction"
                /\ cf.calls[1].ret.ok
                /\ cf.calls[2].arg = "processed"
           /\ \A i \in CallsOf("get_signature_status")
                         \cup CallsOf("is_blockhash_valid") :
                /\ i > 2
                /\ cf.calls[2].op = "get_latest_blockhash_with_commitment"
                /\ cf.calls[2].ret.ok
           /\ \A i \in CallsOf("is_blockhash_valid") :
                cf.calls[i].arg = cf.calls[2].ret.val
      ELSE /\ CallsOf("get_latest_blockhash_with_commitment") = {}
           /\ \A i \in CallsOf("is_blockhash_valid") :
                cf.calls[i].arg = TxBlockhash

C14_Witness ==
  /\ cf.durable
  /\ cf.pc = "status"
  /\ Cardinality(CallsOf("is_blockhash_valid")) = 2
  /\ cf.calls[2] = Call("get_latest_blockhash_with_commitment", "processed",
                        Ok("hB"))
  /\ \A i \in CallsOf("is_blockhash_valid") : cf.calls[i].arg = "hB"

\* C15: a client call that fails is the last client call of
\* send_and_confirm_transaction, which returns that call's error; a failed
\* send_transaction is the only call made, and the transaction is sent once
\* whatever fails.
C15_ClientFailureIsTerminal ==
  cf.pc # "idle" =>
    \A i \in 1..Len(cf.calls) :
      ~cf.calls[i].ret.ok =>
        /\ i = Len(cf.calls)
        /\ cf.pc = "done"
        /\ cf.result = [kind |-> "ClientError", err |-> cf.calls[i].ret.err]
        /\ cf.calls[i].op = "send_transaction" => i = 1
        /\ CallsOf("send_transaction") = {1}

C15_Witness ==
  /\ cf.pc = "done"
  /\ cf.status_retry = 1
  /\ cf.calls[Len(cf.calls)] = Call("is_blockhash_valid", TxBlockhash,
                                    Err("io"))
  /\ cf.result = [kind |-> "ClientError", err |-> "io"]

\* The phases of send in which it waits for the network or for its backoff.
Waiting == {"invoke", "sleep"}

\* The steps of StatsUpdater::drop made under the write lock.
Committing == {"drop_count", "drop_elapsed", "drop_rate_limited"}

\* C16: a send that is in an HTTP invocation or in a backoff wait does not
\* hold the write lock of the statistics.  The writer, if there is one, is a
\* send inside StatsUpdater::drop.  Hence, when no send is inside drop under
\* the lock, get_transport_stats can take the read lock at once, a reader
\* that has it can return, and, once no reader holds the lock, a send that
\* has reached its drop can take the write lock, whatever number of sends are
\* waiting on the network or on a backoff.
C16_NoLockWhileWaiting ==
  /\ \A t \in AllSenders : th[t].pc \in Waiting => lock.writer # t
  /\ lock.writer # NoThread => th[lock.writer].pc \in Committing
  /\ (\A t \in AllSenders : th[t].pc \notin Committing) =>
       /\ lock.writer = NoThread
       /\ \A r \in Readers : rd[r].pc = "idle" => ENABLED StatsRead(r)
       /\ lock.readers = {} =>
            \A t \in AllSenders : th[t].pc = "drop" => ENABLED DropLock(t)
  /\ \A r \in Readers : rd[r].pc = "cloned" => ENABLED StatsReadReturn(r)

C16_Witness ==
  /\ th["s1"].pc = "sleep"
  /\ th["s1"].request_id = 0
  /\ th["s2"].pc = "done"
  /\ th["s2"].request_id = 1
  /\ th["s2"].commits = 1
  /\ rd["r1"].pc = "idle"
  /\ rd["r1"].has
  /\ rd["r1"].snapshot.request_count = 1
  /\ lock = [writer |-> NoThread, readers |-> {}]

\* C17: the elapsed time a send accounts for runs from the start of the call
\* to its drop and so contains its backoff waits.  While a send is under way
\* the time since its start is at least the rate-limited time it has gathered;
\* when its drop has added the elapsed time, that addition is at least the
\* rate-limited time it is about to add; and the cumulative elapsed time is
\* at least the cumulative rate-limited time.
C17_ElapsedCoversRateLimited ==
  /\ stats.elapsed_time >= stats.rate_limited_time
  /\ committed.elapsed_time >= committed.rate_limited_time
  /\ \A t \in Senders :
       /\ th[t].pc \in InFlight \cup {"drop", "drop_count", "drop_elapsed"} =>
            now - th[t].request_start_time >= th[t].rate_limited_time
       /\ th[t].pc = "drop_rate_limited" =>
            stats.elapsed_time - committed.elapsed_time
              >= th[t].rate_limited_time
       /\ th[t].pc # "idle" => th[t].rate_limited_time = th[t].slept

C17_Witness ==
  /\ th["s1"].pc = "done"
  /\ th["s1"].waits >= 1
  /\ returned = 2
  /\ stats.rate_limited_time > DefaultWaitMillis
  /\ stats.elapsed_time > stats.rate_limited_time
  /\ stats = committed

\* The body is JSON and holds no `error` member.
NoErrorField(body) ==
  /\ ParseOk(body)
  /\ IsObject(body) => "error" \notin DOMAIN body.m

\* C18: a response with a success status whose body has no `error` field
\* makes send return Ok with the value of the body's `result` field, with no
\* HTTP invocation after that response, be it the first response or one that
\* follows one to five 429 responses.
C18_NoErrorFieldYieldsResult ==
  \A t \in AllSenders :
    th[t].pc # "idle" /\ IsSuccess(th[t].status) /\ NoErrorField(th[t].body) =>
      /\ th[t].pc \in Leaving
      /\ th[t].invocations = th[t].waits + 1
      /\ th[t].result = [kind |-> "Ok", value |-> Index(th[t].body, "result")]

\* C19: one send consumes one request id, taken before its first HTTP
\* attempt: the serialized request is built from that id once, every attempt
\* of the call (the first and every retry after a 429) carries that same
\* body, the id was issued exactly once, and the id counter equals the number
\* of sends begun, whatever the number of attempts.
C19_OneIdPerSend ==
  /\ request_id = Len(issued)
  /\ Len(issued)
       = returned + Cardinality({t \in AllSenders : th[t].pc \notin {"idle", "done"}})
  /\ \A t \in AllSenders :
       th[t].pc # "idle" =>
         /\ th[t].request_json = BuildRequestJson(th[t].request_id)
         /\ Cardinality({i \in 1..Len(issued) : issued[i] = th[t].request_id}) = 1
         /\ th[t].sent = IF th[t].invocations = 0 THEN {}
                         ELSE {BuildRequestJson(th[t].request_id)}

C19_Witness ==
  /\ th["s1"].pc = "done"
  /\ th["s1"].invocations = 6
  /\ th["s1"].request_id = 1
  /\ th["s1"].sent = {BuildRequestJson(1)}
  /\ request_id = 2
  /\ returned = 2

====
